---- MODULE Spec2Model ----
(***************************************************************************)
(* vgarduino: VGA signal generation on an ATmega328P from one timer        *)
(* interrupt.  Two variants of the sketch are modelled side by side:       *)
(*   - src/vgarduino.ino     (v1.1): down-counter lines_left, the          *)
(*     computed-delay waitTimer1 written in inline assembly, colour bands  *)
(*     spaced by delayMicroseconds(3);                                     *)
(*   - src/unnamed/part_000  (v1.0): up-counter line_number, the poll-loop *)
(*     waitTimer1, colour bands spaced by waitTimer1 calls.                *)
(* Definitions of the v1.0 variant carry the suffix 0.                     *)
(*                                                                         *)
(* Time is counted in CPU cycles since the last restart of Timer1.  The    *)
(* timer runs without prescaler (CS10), so one cycle is one timer tick.    *)
(* A time t names the cycle that is about to execute.                      *)
(*                                                                         *)
(* Three specifications: Spec starts where setup() has returned and serves *)
(* every timer event at the usual interrupt latency; SetupSpec starts at   *)
(* the entry of setup() and executes it statement by statement; LateSpec   *)
(* is Spec with timer events that may be served late.                      *)
(***************************************************************************)
EXTENDS Integers, Sequences, FiniteSets

(* ---------------------------------------------------------------------- *)
(* Program constants                                                      *)
(* ---------------------------------------------------------------------- *)
RED_PIN == 7
GREEN_PIN == 6
BLUE_PIN == 5
VSYNCH_PIN == 0
HSYNCH_PIN == 1
\* part_000 swaps the two names: there HSYNCH_PIN is bit 0 and VSYNCH_PIN bit 1.
HSYNCH_PIN0 == 0
VSYNCH_PIN0 == 1

RECURSIVE Pow2(_)
Pow2(k) == IF k = 0 THEN 1 ELSE 2 * Pow2(k - 1)

_BV(bit) == Pow2(bit)

BLACK_MASK == 0
RED_MASK == _BV(RED_PIN)
GREEN_MASK == _BV(GREEN_PIN)
BLUE_MASK == _BV(BLUE_PIN)
CYAN_MASK == _BV(GREEN_PIN) + _BV(BLUE_PIN)
YELLOW_MASK == _BV(RED_PIN) + _BV(GREEN_PIN)
MAGENTA_MASK == _BV(RED_PIN) + _BV(BLUE_PIN)
WHITE_MASK == _BV(RED_PIN) + _BV(GREEN_PIN) + _BV(BLUE_PIN)

V_FRONT_PORCH_LINES == 11
V_SYNCH_PULSE_LINES == 2
V_BACK_PORCH_LINES == 31
V_ACTIVE_VIDEO_LINES == 480

SYNCH_PULSE == 0
BACK_PORCH == 1
ACTIVE_VIDEO == 2
FRONT_PORCH == 3

\* int nb_line_modes[]: a C array indexed from 0, here indexed by phase + 1.
nb_line_modes_table ==
    << V_SYNCH_PULSE_LINES, V_BACK_PORCH_LINES, V_ACTIVE_VIDEO_LINES, V_FRONT_PORCH_LINES >>

nb_line_modes(p) == nb_line_modes_table[p + 1]

H_SYNCH_PULSE_TICKS == 61
H_BACK_PORCH_TICKS == 30
H_ACTIVE_VIDEO_TICKS == 406
H_FRONT_PORCH_TICKS == 10
H_FULL_LINE_NB_TICKS ==
    H_SYNCH_PULSE_TICKS + H_BACK_PORCH_TICKS + H_ACTIVE_VIDEO_TICKS + H_FRONT_PORCH_TICKS

\* The clock of the board: 16 cycles per microsecond ("Each clock tick is 0.0625 us").
CyclesPerMicrosecond == 16

(* ---------------------------------------------------------------------- *)
(* Bounds of the model                                                    *)
(* ---------------------------------------------------------------------- *)
\* Cycle of the line period at which the handler's first statement starts
\* (interrupt response plus prologue), drawn anew for every timer event.
MinLatency == 20
MaxLatency == 25
\* Number of timer events followed (one frame is 524 events).
MaxEvents == 560

Latencies == MinLatency .. MaxLatency

\* An entry cycle at which the counter is already past the first wait target
\* (61 + 30 = 91), and the number of timer events followed with such entries.
LateLatency == 120
MaxLateEvents == 60

LateLatencies == {LateLatency}

\* What register r13 may hold when the handler runs: nothing in the sketch
\* ever writes it, so it keeps whatever the reset left there.
R13Values == {0, 13, 200}

(* ---------------------------------------------------------------------- *)
(* Machine arithmetic and the hardware counter                            *)
(* ---------------------------------------------------------------------- *)
\* A value as stored in a byte (the waitTimer1 parameter, an 8-bit register).
ToByte(x) == ((x % 256) + 256) % 256

\* Bit k of a byte.
Bit(x, k) == (x \div Pow2(k)) % 2

\* Timer1 in fast PWM mode with TOP = ICR1 = H_FULL_LINE_NB_TICKS: it counts
\* 0 .. TOP and restarts by itself.
TCNT1(t) == t % (H_FULL_LINE_NB_TICKS + 1)

\* The low byte of the counter, the only part the waiters read.
TCNT1L(t) == TCNT1(t) % 256

\* Cycles of "lds": the counter is sampled in the second one.
LdsCycles == 2
\* Cycles of a port write (ldi + out, or cbi / sbi): the port changes in the last one.
OutCycles == 2

(* ---------------------------------------------------------------------- *)
(* setup(): the statements of the initialization, and the registers       *)
(* ---------------------------------------------------------------------- *)
\* The registers the initialization touches.  A timer control or interrupt
\* mask register is the set of the names of its bits that are 1; I is the
\* global interrupt enable bit of SREG.
\* On entry to setup() the registers are as the Arduino core leaves them:
\* interrupts enabled, Timer0 counting with its overflow interrupt enabled
\* (the timer that "causes issues" according to init_video_line_timer),
\* Timer1 counting in 8-bit PWM mode with no interrupt of its own enabled.
ResetRegisters ==
    [I |-> 1, DDRD |-> 0, DDRB |-> 0,
     TCCR0A |-> {"WGM01", "WGM00"}, TCCR0B |-> {"CS01", "CS00"}, TIMSK0 |-> {"TOIE0"},
     TCCR1A |-> {"WGM10"}, TCCR1B |-> {"CS11", "CS10"}, TCCR1C |-> {},
     TCNT1 |-> 0, OCR1A |-> 0, ICR1 |-> 0, TIMSK1 |-> {}]

\* The machine on entry to setup(): the globals phase and lines_left (ctr)
\* zero-initialised, the ports (D, B) all 0.
ResetMachine == [phase |-> 0, ctr |-> 0, D |-> 0, B |-> 0, io |-> ResetRegisters]

\* vgarduino.ino init_io(), statement by statement.
init_io == << "DDR(RGB_PORT)", "DDR(SYNCH_PORT)", "PORT(RGB_PORT)", "PORT(SYNCH_PORT)" >>

\* vgarduino.ino init_video_line_timer(), statement by statement.
init_video_line_timer ==
    << "TCCR0A = 0", "TCCR0B = 0", "TCCR1A = 0", "TCCR1B = 0", "TCCR1C = 0",
       "phase", "lines_left", "TCNT1", "OCR1A", "ICR1", "TIMSK1", "TCCR1A", "TCCR1B" >>

\* setup with a fault: sei() placed where cli() belongs, cli() at the end.
setupSeiFirst == init_io \o << "sei" >> \o init_video_line_timer \o << "cli" >>

\* vgarduino.ino setup(): init_io(); cli(); init_video_line_timer(); sei();
setup == init_io \o << "cli" >> \o init_video_line_timer \o << "sei" >>

\* part_000 init_video(), statement by statement.
init_video ==
    << "DDR(RGB_PORT)", "DDR(SYNCH_PORT)", "PORT(RGB_PORT)", "PORT(SYNCH_PORT)",
       "TCCR1A = 0", "TCCR1B = 0", "TCCR1C = 0", "cli",
       "line_number", "phase", "TCNT1", "OCR1A", "ICR1", "TIMSK1", "TCCR1A", "TCCR1B", "sei" >>

\* part_000 setup(): init_video();
setup0 == init_video

\* The machine after one statement of the initialization.  The statements of
\* the two sketches are the same text wherever they have the same name.
Execute(m, stmt) ==
    CASE stmt = "DDR(RGB_PORT)" ->
            [m EXCEPT !.io.DDRD = _BV(RED_PIN) + _BV(GREEN_PIN) + _BV(BLUE_PIN)]
      [] stmt = "DDR(SYNCH_PORT)" ->
            [m EXCEPT !.io.DDRB = _BV(VSYNCH_PIN) + _BV(HSYNCH_PIN)]
      [] stmt = "PORT(RGB_PORT)" -> [m EXCEPT !.D = 0]
      [] stmt = "PORT(SYNCH_PORT)" -> [m EXCEPT !.B = _BV(VSYNCH_PIN) + _BV(HSYNCH_PIN)]
      [] stmt = "cli" -> [m EXCEPT !.io.I = 0]
      [] stmt = "sei" -> [m EXCEPT !.io.I = 1]
      [] stmt = "TCCR0A = 0" -> [m EXCEPT !.io.TCCR0A = {}]
      [] stmt = "TCCR0B = 0" -> [m EXCEPT !.io.TCCR0B = {}]
      [] stmt = "TCCR1A = 0" -> [m EXCEPT !.io.TCCR1A = {}]
      [] stmt = "TCCR1B = 0" -> [m EXCEPT !.io.TCCR1B = {}]
      [] stmt = "TCCR1C = 0" -> [m EXCEPT !.io.TCCR1C = {}]
      [] stmt = "phase" -> [m EXCEPT !.phase = FRONT_PORCH]
      [] stmt = "lines_left" -> [m EXCEPT !.ctr = nb_line_modes(m.phase)]
      [] stmt = "line_number" -> [m EXCEPT !.ctr = 0]
      [] stmt = "TCNT1" -> [m EXCEPT !.io.TCNT1 = 0]
      [] stmt = "OCR1A" -> [m EXCEPT !.io.OCR1A = H_SYNCH_PULSE_TICKS]
      [] stmt = "ICR1" -> [m EXCEPT !.io.ICR1 = H_FULL_LINE_NB_TICKS]
      [] stmt = "TIMSK1" -> [m EXCEPT !.io.TIMSK1 = {"ICIE1"}]
      [] stmt = "TCCR1A" -> [m EXCEPT !.io.TCCR1A = {"COM1A1", "COM1A0", "WGM11"}]
      [] stmt = "TCCR1B" -> [m EXCEPT !.io.TCCR1B = {"WGM13", "WGM12", "CS10"}]

\* The machine after the statements k .. Len(stmts) of a statement list.
RECURSIVE ExecuteFrom(_, _, _)
ExecuteFrom(m, stmts, k) ==
    IF k > Len(stmts) THEN m ELSE ExecuteFrom(Execute(m, stmts[k]), stmts, k + 1)

\* Timer1 raises its capture flag once per period: it is clocked and counts
\* in the mode whose TOP is ICR1 (WGM13, WGM12, WGM11 set).
Timer1Captures(r) ==
    /\ r.TCCR1B \cap {"CS12", "CS11", "CS10"} # {}
    /\ {"WGM13", "WGM12"} \subseteq r.TCCR1B
    /\ "WGM11" \in r.TCCR1A

\* Timer0 raises its overflow flag: it is clocked.
Timer0Overflows(r) == r.TCCR0B \cap {"CS02", "CS01", "CS00"} # {}

\* The interrupt sources that fire with the registers r.
ActiveSources(r) ==
    {s \in {"TIMER1_CAPT"} : r.I = 1 /\ "ICIE1" \in r.TIMSK1 /\ Timer1Captures(r)}
    \cup {s \in {"TIMER0_OVF"} : r.I = 1 /\ "TOIE0" \in r.TIMSK0 /\ Timer0Overflows(r)}

\* ISR(TIMER1_CAPT_vect) can be invoked.
Interruptible(r) == "TIMER1_CAPT" \in ActiveSources(r)

(* ---------------------------------------------------------------------- *)
(* State                                                                  *)
(* ---------------------------------------------------------------------- *)
VARIABLES
    phase,         \* vgarduino.ino: byte phase
    lines_left,    \* vgarduino.ino: int lines_left
    PORTD,         \* vgarduino.ino: PORT(RGB_PORT)
    PORTB,         \* vgarduino.ino: PORT(SYNCH_PORT)
    r13,           \* vgarduino.ino: register r13, read by waitTimer1
    trace,         \* vgarduino.ino: the steps of the last handler invocation
    phase0,        \* part_000: byte phase
    line_number,   \* part_000: int line_number
    PORTD0,        \* part_000: PORT(RGB_PORT)
    PORTB0,        \* part_000: PORT(SYNCH_PORT)
    trace0,        \* part_000: the steps of the last handler invocation
    events,        \* timer events handled so far
    entryPhase,    \* vgarduino.ino: phase on entry to the last invocation (-1: none yet)
    entryLines,    \* vgarduino.ino: lines_left on entry to the last invocation
    entryPhase0,   \* part_000: phase on entry to the last invocation (-1: none yet)
    entryLine0,    \* part_000: line_number on entry to the last invocation
    inPhase,       \* vgarduino.ino: advances since phase last changed
    inPhase0,      \* part_000: advances since phase last changed
    spent,         \* vgarduino.ino: advances the phase before the current one lasted (0: none yet)
    spent0,        \* part_000: the same
    sinceSync,     \* vgarduino.ino: advances since SYNCH_PULSE was last entered (-1: never)
    sinceSync0,    \* part_000: the same
    gap,           \* vgarduino.ino: advances between the last two entries into SYNCH_PULSE (0: none yet)
    gap0,          \* part_000: the same
    colourLines,   \* vgarduino.ino: invocations so far that emitted the 8 colour bands
    colourLines0,  \* part_000: the same
    pc,            \* vgarduino.ino: the statement of setup() to execute next (Len(setup) + 1: returned)
    pc0,           \* part_000: the same, for setup0
    io,            \* vgarduino.ino: the registers written by setup()
    io0,           \* part_000: the same
    advance,       \* vgarduino.ino: the calls of incrementLineNumber() in the last invocation
    advance0,      \* part_000: the same
    carry,         \* vgarduino.ino: cycles by which the last invocation ran into the next line period
    carry0,        \* part_000: the same
    lost,          \* vgarduino.ino: timer events that found the capture flag still set
    lost0          \* part_000: the same

vars ==
    << phase, lines_left, PORTD, PORTB, r13, trace,
       phase0, line_number, PORTD0, PORTB0, trace0,
       events, entryPhase, entryLines, entryPhase0, entryLine0,
       inPhase, inPhase0, spent, spent0, sinceSync, sinceSync0, gap, gap0,
       colourLines, colourLines0, pc, pc0, io, io0, advance, advance0, carry, carry0,
       lost, lost0 >>

\* The variables that only record what the handlers did.
history ==
    << trace, trace0, events, entryPhase, entryLines, entryPhase0, entryLine0,
       inPhase, inPhase0, spent, spent0, sinceSync, sinceSync0, gap, gap0,
       colourLines, colourLines0, advance, advance0, carry, carry0, lost, lost0 >>

(* ---------------------------------------------------------------------- *)
(* Phase state machine                                                    *)
(* ---------------------------------------------------------------------- *)
\* PhaseIncrement with a fault: the mask 0x01 instead of 0x03.
PhaseIncrementMask1(p) == ToByte(p + 1) % 2

\* phase++; phase &= 0x03;
PhaseIncrement(p) == ToByte(p + 1) % 4

\* incrementLineNumber with a fault: the counter tested before it is decremented.
incrementLineNumberTestFirst(p, left) ==
    IF left = 0
    THEN [phase |-> PhaseIncrement(p), lines_left |-> nb_line_modes(PhaseIncrement(p))]
    ELSE [phase |-> p, lines_left |-> left - 1]

\* incrementLineNumber with a fault: the counter reloaded for the phase just left.
incrementLineNumberStale(p, left) ==
    IF left - 1 = 0
    THEN [phase |-> PhaseIncrement(p), lines_left |-> nb_line_modes(p)]
    ELSE [phase |-> p, lines_left |-> left - 1]

\* vgarduino.ino incrementLineNumber(): the new (phase, lines_left).
incrementLineNumber(p, left) ==
    IF left - 1 = 0
    THEN [phase |-> PhaseIncrement(p), lines_left |-> nb_line_modes(PhaseIncrement(p))]
    ELSE [phase |-> p, lines_left |-> left - 1]

\* incrementLineNumber0 with a fault: the comparison made before the increment.
incrementLineNumber0Late(p, line) ==
    IF line = nb_line_modes(p)
    THEN [phase |-> PhaseIncrement(p), line_number |-> 0]
    ELSE [phase |-> p, line_number |-> line + 1]

\* part_000 incrementLineNumber(): the new (phase, line_number).
incrementLineNumber0(p, line) ==
    IF line + 1 = nb_line_modes(p)
    THEN [phase |-> PhaseIncrement(p), line_number |-> 0]
    ELSE [phase |-> p, line_number |-> line + 1]

(* ---------------------------------------------------------------------- *)
(* Handler steps.  A handler run is folded over a record                  *)
(*   [t: the cycle about to execute, tr: the steps so far,                *)
(*    D: PORT(RGB_PORT), B: PORT(SYNCH_PORT)].                            *)
(* ---------------------------------------------------------------------- *)
StartRun(e, d, b) == [t |-> e, tr |-> << >>, D |-> d, B |-> b]

\* PORT(RGB_PORT) = val;
WriteRGB(st, val) ==
    [st EXCEPT !.t = st.t + OutCycles,
               !.D = val,
               !.tr = Append(st.tr, [op |-> "write", port |-> "RGB", old |-> st.D, val |-> val,
                                     t0 |-> st.t, at |-> st.t + OutCycles - 1,
                                     t1 |-> st.t + OutCycles])]

\* A write of the whole SYNCH_PORT register with the value val.
WriteSYNCH(st, val) ==
    [st EXCEPT !.t = st.t + OutCycles,
               !.B = val,
               !.tr = Append(st.tr, [op |-> "write", port |-> "SYNCH", old |-> st.B, val |-> val,
                                     t0 |-> st.t, at |-> st.t + OutCycles - 1,
                                     t1 |-> st.t + OutCycles])]

\* XorBit with a fault: |= in the place of ^=.
XorBitAsOr(x, k) == IF (x \div Pow2(k)) % 2 = 1 THEN x ELSE x + Pow2(k)

\* x ^ _BV(k), x & ~_BV(k), x | _BV(k) on a byte.
XorBit(x, k) == IF Bit(x, k) = 1 THEN x - Pow2(k) ELSE x + Pow2(k)
bitClear(x, k) == IF Bit(x, k) = 1 THEN x - Pow2(k) ELSE x
bitSet(x, k) == IF Bit(x, k) = 1 THEN x ELSE x + Pow2(k)

\* delayMicroseconds(us): a busy wait of us microseconds.
delayMicroseconds(st, us) ==
    [st EXCEPT !.t = st.t + us * CyclesPerMicrosecond,
               !.tr = Append(st.tr, [op |-> "delay", us |-> us, t0 |-> st.t,
                                     t1 |-> st.t + us * CyclesPerMicrosecond])]

(* ---------------------------------------------------------------------- *)
(* vgarduino.ino waitTimer1: the computed-delay waiter                    *)
(* ---------------------------------------------------------------------- *)
\* "sub %[tick], %[tmp]" then "sub %[tick], 13": the second operand of sub is a
\* register, so 13 names register r13 and its content reg13 is subtracted.
SubTick(tick, tmp, reg13) == ToByte(ToByte(tick - tmp) - reg13)

\* Labels 1: and 2:, cycles spent until brcc falls through:
\*   cpi (1), brcc taken (2), subi (1), and again; at last cpi (1), brcc not taken (1).
RECURSIVE ReduceCycles(_)
ReduceCycles(tick) ==
    IF tick >= 4 THEN 1 + 2 + 1 + ReduceCycles(tick - 4) ELSE 1 + 1

\* The register after the reduce loop.
RECURSIVE ReduceTick(_)
ReduceTick(tick) == IF tick >= 4 THEN ReduceTick(tick - 4) ELSE tick

\* The compare chain and the nops, for the register value left by the loop.
PadCycles(rem) ==
    CASE rem = 0 -> 1 + 2                      \* cpi, breq 3f taken: past every nop
      [] rem = 1 -> 1 + 1 + 1 + 2 + 1 + 1      \* ..., breq 1f taken, nop at 1:, nop at 2:
      [] rem = 2 -> 1 + 1 + 1 + 1 + 1 + 2 + 1  \* ..., breq 2f taken, nop at 2:
      [] OTHER   -> 1 + 1 + 1 + 1 + 1 + 1 + 1 + 1 + 1   \* no branch taken, three nops

\* Cycles of the whole asm block when the two subs leave delta in the register.
AsmCycles(delta) == 1 + 1 + 2 + ReduceCycles(delta) + PadCycles(ReduceTick(delta))

\* waitTimer1(arg) of vgarduino.ino, called at st.t with r13 = reg13.
waitTimer1(st, arg, reg13) ==
    LET tick == ToByte(arg)
        tmp == TCNT1L(st.t + LdsCycles - 1)
        delta == SubTick(tick, tmp, reg13)
        cycles == AsmCycles(delta)
        t1 == st.t + LdsCycles + cycles
    IN [st EXCEPT !.t = t1,
                  !.tr = Append(st.tr, [op |-> "wait", arg |-> arg, tick |-> tick,
                                        reading |-> tmp, delta |-> delta,
                                        underflow |-> (tick - tmp - reg13 < 0),
                                        cycles |-> cycles, t0 |-> st.t, t1 |-> t1])]

(* ---------------------------------------------------------------------- *)
(* part_000 waitTimer1: the poll loop                                     *)
(* ---------------------------------------------------------------------- *)
\* do { } while (TCNT1L < tick): lds (2), cpi (1), brcs taken (2).
PollCycles == 5
\* The loop is followed for at most two line periods.
PollLimit == 2 * (H_FULL_LINE_NB_TICKS + 1)

\* The cycle of the sample that ends the loop, the first sample being taken at s.
RECURSIVE PollUntil(_, _)
PollUntil(s, tick) ==
    IF TCNT1L(s) < tick /\ s < PollLimit THEN PollUntil(s + PollCycles, tick) ELSE s

\* waitTimer1(arg) of part_000, called at st.t.
waitTimer1_0(st, arg) ==
    LET tick == ToByte(arg)
        first == st.t + LdsCycles - 1
        last == PollUntil(first, tick)
        t1 == last + 1 + 1 + 1      \* end of lds, cpi, brcs not taken
    IN [st EXCEPT !.t = t1,
                  !.tr = Append(st.tr, [op |-> "wait", arg |-> arg, tick |-> tick,
                                        entry |-> TCNT1L(first), reading |-> TCNT1L(last),
                                        done |-> ~(TCNT1L(last) < tick),
                                        t0 |-> st.t, t1 |-> t1])]

(* ---------------------------------------------------------------------- *)
(* The handlers                                                           *)
(* ---------------------------------------------------------------------- *)
\* The colours in the order both handlers write them.
Bands ==
    << RED_MASK, GREEN_MASK, BLUE_MASK, CYAN_MASK,
       YELLOW_MASK, MAGENTA_MASK, BLACK_MASK, WHITE_MASK >>

\* EmitBands with a fault: the last band is left out.
RECURSIVE EmitBandsShort(_, _)
EmitBandsShort(st, k) ==
    IF k >= Len(Bands) THEN st
    ELSE EmitBandsShort(delayMicroseconds(WriteRGB(st, Bands[k]), 3), k + 1)

\* vgarduino.ino: PORT(RGB_PORT) = colour; delayMicroseconds(3); for band k and after.
RECURSIVE EmitBands(_, _)
EmitBands(st, k) ==
    IF k > Len(Bands) THEN st
    ELSE EmitBands(delayMicroseconds(WriteRGB(st, Bands[k]), 3), k + 1)

\* ISR_Run with a fault: the sync line toggled on every line of FrontPorch and SyncPulse.
ISR_RunEveryLine(p, left, e, reg13, d, b) ==
    LET st0 == StartRun(e, d, b) IN
    IF p = ACTIVE_VIDEO
    THEN LET st1 == waitTimer1(st0, H_SYNCH_PULSE_TICKS + H_BACK_PORCH_TICKS, reg13)
         IN WriteRGB(EmitBands(st1, 1), 0)
    ELSE IF p = FRONT_PORCH \/ p = SYNCH_PULSE
    THEN LET st1 == waitTimer1(st0, H_SYNCH_PULSE_TICKS + H_BACK_PORCH_TICKS, reg13)
         IN WriteSYNCH(st1, XorBit(st1.B, VSYNCH_PIN))
    ELSE st0

\* ISR_Run with a fault: a plain else, so that BackPorch takes the sync branch too.
ISR_RunPlainElse(p, left, e, reg13, d, b) ==
    LET st0 == StartRun(e, d, b) IN
    IF p = ACTIVE_VIDEO
    THEN LET st1 == waitTimer1(st0, H_SYNCH_PULSE_TICKS + H_BACK_PORCH_TICKS, reg13)
         IN WriteRGB(EmitBands(st1, 1), 0)
    ELSE IF left = 1
    THEN LET st1 == waitTimer1(st0, H_SYNCH_PULSE_TICKS + H_BACK_PORCH_TICKS, reg13)
         IN WriteSYNCH(st1, XorBit(st1.B, VSYNCH_PIN))
    ELSE st0

\* vgarduino.ino ISR(TIMER1_CAPT_vect) up to the call of incrementLineNumber:
\* entered at cycle e with the given phase, lines_left, r13 and port registers.
ISR_Run(p, left, e, reg13, d, b) ==
    LET st0 == StartRun(e, d, b) IN
    IF p = ACTIVE_VIDEO
    THEN LET st1 == waitTimer1(st0, H_SYNCH_PULSE_TICKS + H_BACK_PORCH_TICKS, reg13)
         IN WriteRGB(EmitBands(st1, 1), 0)
    ELSE IF (p = FRONT_PORCH \/ p = SYNCH_PULSE) /\ left = 1
    THEN LET st1 == waitTimer1(st0, H_SYNCH_PULSE_TICKS + H_BACK_PORCH_TICKS, reg13)
         IN WriteSYNCH(st1, XorBit(st1.B, VSYNCH_PIN))
    ELSE st0

\* part_000: the argument of the waitTimer1 call that follows the write of band k.
BandTarget0(k) ==
    H_SYNCH_PULSE_TICKS + H_BACK_PORCH_TICKS +
    (IF k = 1 THEN H_ACTIVE_VIDEO_TICKS \div 8
     ELSE IF k = Len(Bands) THEN H_ACTIVE_VIDEO_TICKS
     ELSE (H_ACTIVE_VIDEO_TICKS * k) \div 8)

\* part_000: PORT(RGB_PORT) = colour; waitTimer1(...); for band k and after.
RECURSIVE EmitBands0(_, _)
EmitBands0(st, k) ==
    IF k > Len(Bands) THEN st
    ELSE EmitBands0(waitTimer1_0(WriteRGB(st, Bands[k]), BandTarget0(k)), k + 1)

\* ISR0_Run with a fault: the write that ends the ActiveVideo line is missing.
ISR0_RunNoBlank(p, line, e, d, b) ==
    LET st1 == waitTimer1_0(StartRun(e, d, b), H_SYNCH_PULSE_TICKS + H_BACK_PORCH_TICKS) IN
    CASE p = FRONT_PORCH ->
            IF line = V_FRONT_PORCH_LINES - 1
            THEN WriteSYNCH(st1, bitClear(st1.B, HSYNCH_PIN0)) ELSE st1
      [] p = SYNCH_PULSE ->
            IF line = V_SYNCH_PULSE_LINES - 1
            THEN WriteSYNCH(st1, bitSet(st1.B, HSYNCH_PIN0)) ELSE st1
      [] p = ACTIVE_VIDEO -> EmitBands0(st1, 1)
      [] OTHER -> st1

\* part_000 ISR(TIMER1_CAPT_vect) up to the call of incrementLineNumber.
ISR0_Run(p, line, e, d, b) ==
    LET st1 == waitTimer1_0(StartRun(e, d, b), H_SYNCH_PULSE_TICKS + H_BACK_PORCH_TICKS) IN
    CASE p = FRONT_PORCH ->
            IF line = V_FRONT_PORCH_LINES - 1
            THEN WriteSYNCH(st1, bitClear(st1.B, HSYNCH_PIN0)) ELSE st1
      [] p = SYNCH_PULSE ->
            IF line = V_SYNCH_PULSE_LINES - 1
            THEN WriteSYNCH(st1, bitSet(st1.B, HSYNCH_PIN0)) ELSE st1
      [] p = ACTIVE_VIDEO ->
            WriteRGB(EmitBands0(st1, 1), _BV(VSYNCH_PIN0) + _BV(HSYNCH_PIN0))
      [] OTHER -> st1

\* A call of incrementLineNumber() as a step of a run: after is the number of
\* output steps and waits the run made before the call.
AdvanceStep(st) == [op |-> "advance", after |-> Len(st.tr), t0 |-> st.t]

\* ISR with a fault: the handler returns at once in BackPorch, where it has no output to make.
ISR_ReturnInBackPorch(p, left, e, reg13, d, b) ==
    LET st == ISR_Run(p, left, e, reg13, d, b)
        next == incrementLineNumber(p, left)
    IN IF p = BACK_PORCH
       THEN [t |-> st.t, tr |-> st.tr, D |-> st.D, B |-> st.B,
             phase |-> p, lines_left |-> left, adv |-> << >>]
       ELSE [t |-> st.t, tr |-> st.tr, D |-> st.D, B |-> st.B,
             phase |-> next.phase, lines_left |-> next.lines_left,
             adv |-> << AdvanceStep(st) >>]

\* vgarduino.ino ISR(TIMER1_CAPT_vect), the whole handler: the output steps of
\* the line and then, whatever the branch taken, incrementLineNumber().
ISR(p, left, e, reg13, d, b) ==
    LET st == ISR_Run(p, left, e, reg13, d, b)
        next == incrementLineNumber(p, left)
    IN [t |-> st.t, tr |-> st.tr, D |-> st.D, B |-> st.B,
        phase |-> next.phase, lines_left |-> next.lines_left,
        adv |-> << AdvanceStep(st) >>]

\* part_000 ISR(TIMER1_CAPT_vect), the whole handler: the switch and then
\* incrementLineNumber().
ISR0(p, line, e, d, b) ==
    LET st == ISR0_Run(p, line, e, d, b)
        next == incrementLineNumber0(p, line)
    IN [t |-> st.t, tr |-> st.tr, D |-> st.D, B |-> st.B,
        phase |-> next.phase, line_number |-> next.line_number,
        adv |-> << AdvanceStep(st) >>]

\* The capture flag raised while a handler still runs is served as soon as the
\* handler is over: the next invocation starts late by the cycles the last one
\* spent beyond the line period (its return sequence is counted with the entry
\* latency of the next).
Overrun(t) ==
    IF t > H_FULL_LINE_NB_TICKS + 1 THEN t - (H_FULL_LINE_NB_TICKS + 1) ELSE 0

\* The capture flag is one bit: a timer event that comes while the flag of the
\* event before it is still waiting to be served (the handler has been running
\* for a whole line period more) sets nothing, and no invocation answers it.
Missed(late) == late >= H_FULL_LINE_NB_TICKS + 1

\* What such a timer event leaves of vgarduino.ino: everything as it was, the
\* handler still busy until cycle late of the line period before.
NoRun(p, left, late, d, b) ==
    [t |-> late, tr |-> << >>, D |-> d, B |-> b,
     phase |-> p, lines_left |-> left, adv |-> << >>]

\* The same for part_000.
NoRun0(p, line, late, d, b) ==
    [t |-> late, tr |-> << >>, D |-> d, B |-> b,
     phase |-> p, line_number |-> line, adv |-> << >>]

(* ---------------------------------------------------------------------- *)
(* Observations of a handler run                                          *)
(* ---------------------------------------------------------------------- *)
IsWrite(s, port) == s.op = "write" /\ s.port = port
IsWait(s) == s.op = "wait"

RGBWrites(tr) == SelectSeq(tr, LAMBDA s : IsWrite(s, "RGB"))
SYNCHWrites(tr) == SelectSeq(tr, LAMBDA s : IsWrite(s, "SYNCH"))
Waits(tr) == SelectSeq(tr, LAMBDA s : IsWait(s))
Writes(tr) == SelectSeq(tr, LAMBDA s : s.op = "write")

\* The positions in a run of its writes to the RGB port, in order.
RGBIndex(tr) == SelectSeq([i \in 1 .. Len(tr) |-> i], LAMBDA i : IsWrite(tr[i], "RGB"))

\* Step i of a run directly follows a call of the waiter.
PlacedByWaiter(tr, i) == i > 1 /\ IsWait(tr[i - 1])

\* The three colour channel bits (7, 6, 5) of a value written to the RGB port.
ColourBits(v) == (v \div _BV(BLUE_PIN)) * _BV(BLUE_PIN)

\* The 8 colour codes that three colour bits can form.
ColourCodes == { r + g + b : r \in {0, _BV(RED_PIN)}, g \in {0, _BV(GREEN_PIN)},
                             b \in {0, _BV(BLUE_PIN)} }

\* A run emitted the 8-band colour sequence: 8 colour writes, one per colour
\* code, and then the colour switched off.
EmitsEightBands(tr) ==
    \E w \in {RGBWrites(tr)} :
        /\ Len(w) = 8 + 1
        /\ { ColourBits(w[k].val) : k \in 1 .. 8 } = ColourCodes
        /\ ColourBits(w[9].val) = 0

(* ---------------------------------------------------------------------- *)
(* Specification                                                          *)
(* ---------------------------------------------------------------------- *)
\* The state setup() leaves: init_io / init_video_line_timer, and init_video.
Init ==
    /\ phase = FRONT_PORCH
    /\ lines_left = nb_line_modes(FRONT_PORCH)
    /\ PORTD = 0
    /\ PORTB = _BV(VSYNCH_PIN) + _BV(HSYNCH_PIN)
    /\ r13 \in R13Values
    /\ trace = << >>
    /\ phase0 = FRONT_PORCH
    /\ line_number = 0
    /\ PORTD0 = 0
    /\ PORTB0 = _BV(VSYNCH_PIN0) + _BV(HSYNCH_PIN0)
    /\ trace0 = << >>
    /\ events = 0
    /\ entryPhase = -1
    /\ entryLines = 0
    /\ entryPhase0 = -1
    /\ entryLine0 = 0
    /\ inPhase = 0
    /\ inPhase0 = 0
    /\ spent = 0
    /\ spent0 = 0
    /\ sinceSync = -1
    /\ sinceSync0 = -1
    /\ gap = 0
    /\ gap0 = 0
    /\ colourLines = 0
    /\ colourLines0 = 0
    /\ pc = Len(setup) + 1
    /\ pc0 = Len(setup0) + 1
    /\ io = ExecuteFrom(ResetMachine, setup, 1).io
    /\ io0 = ExecuteFrom(ResetMachine, setup0, 1).io
    /\ advance = << >>
    /\ advance0 = << >>
    /\ carry = 0
    /\ carry0 = 0
    /\ lost = 0
    /\ lost0 = 0

\* The handlers of both variants run for one Timer1 capture event whose
\* interrupt response ends e cycles into the line period: each handler starts
\* there, or later by the cycles its last invocation overran.
HandleEvent(e) ==
    \E run \in {IF Missed(carry)
                THEN NoRun(phase, lines_left, carry, PORTD, PORTB)
                ELSE ISR(phase, lines_left, e + carry, r13, PORTD, PORTB)},
       run0 \in {IF Missed(carry0)
                 THEN NoRun0(phase0, line_number, carry0, PORTD0, PORTB0)
                 ELSE ISR0(phase0, line_number, e + carry0, PORTD0, PORTB0)} :
    LET enters == run.phase = SYNCH_PULSE /\ phase # SYNCH_PULSE
        enters0 == run0.phase = SYNCH_PULSE /\ phase0 # SYNCH_PULSE
    IN /\ phase' = run.phase
       /\ lines_left' = run.lines_left
       /\ PORTD' = run.D
       /\ PORTB' = run.B
       /\ trace' = run.tr
       /\ advance' = run.adv
       /\ carry' = Overrun(run.t)
       /\ phase0' = run0.phase
       /\ line_number' = run0.line_number
       /\ PORTD0' = run0.D
       /\ PORTB0' = run0.B
       /\ trace0' = run0.tr
       /\ advance0' = run0.adv
       /\ carry0' = Overrun(run0.t)
       /\ entryPhase' = phase
       /\ entryLines' = lines_left
       /\ entryPhase0' = phase0
       /\ entryLine0' = line_number
       /\ inPhase' = IF run.phase # phase THEN 0 ELSE inPhase + 1
       /\ inPhase0' = IF run0.phase # phase0 THEN 0 ELSE inPhase0 + 1
       /\ spent' = IF run.phase # phase THEN inPhase + 1 ELSE spent
       /\ spent0' = IF run0.phase # phase0 THEN inPhase0 + 1 ELSE spent0
       /\ sinceSync' = IF enters THEN 0
                       ELSE IF sinceSync = -1 THEN -1 ELSE sinceSync + 1
       /\ sinceSync0' = IF enters0 THEN 0
                        ELSE IF sinceSync0 = -1 THEN -1 ELSE sinceSync0 + 1
       /\ gap' = IF enters /\ sinceSync # -1 THEN sinceSync + 1 ELSE gap
       /\ gap0' = IF enters0 /\ sinceSync0 # -1 THEN sinceSync0 + 1 ELSE gap0
       /\ colourLines' = colourLines + (IF EmitsEightBands(run.tr) THEN 1 ELSE 0)
       /\ colourLines0' = colourLines0 + (IF EmitsEightBands(run0.tr) THEN 1 ELSE 0)
       /\ lost' = lost + (IF Missed(carry) THEN 1 ELSE 0)
       /\ lost0' = lost0 + (IF Missed(carry0) THEN 1 ELSE 0)
       /\ events' = events + 1
       /\ UNCHANGED << r13, pc, pc0, io, io0 >>

\* One Timer1 capture event, given to both variants, served at the usual latency.
TimerEvent ==
    /\ events < MaxEvents
    /\ Interruptible(io) /\ Interruptible(io0)
    /\ \E e \in Latencies : HandleEvent(e)

\* One Timer1 capture event whose service may also be held up (by the handler
\* of another interrupt, say) until the counter is past the first wait target.
LateTimerEvent ==
    /\ events < MaxLateEvents
    /\ Interruptible(io) /\ Interruptible(io0)
    /\ \E e \in Latencies \cup LateLatencies : HandleEvent(e)

\* vgarduino.ino: the next statement of setup().
SetupStep ==
    /\ pc <= Len(setup)
    /\ \E m \in {Execute([phase |-> phase, ctr |-> lines_left, D |-> PORTD, B |-> PORTB,
                          io |-> io], setup[pc])} :
          /\ phase' = m.phase
          /\ lines_left' = m.ctr
          /\ PORTD' = m.D
          /\ PORTB' = m.B
          /\ io' = m.io
    /\ pc' = pc + 1
    /\ UNCHANGED << r13, phase0, line_number, PORTD0, PORTB0, pc0, io0 >>
    /\ UNCHANGED history

\* part_000: the next statement of setup().
SetupStep0 ==
    /\ pc0 <= Len(setup0)
    /\ \E m \in {Execute([phase |-> phase0, ctr |-> line_number, D |-> PORTD0, B |-> PORTB0,
                          io |-> io0], setup0[pc0])} :
          /\ phase0' = m.phase
          /\ line_number' = m.ctr
          /\ PORTD0' = m.D
          /\ PORTB0' = m.B
          /\ io0' = m.io
    /\ pc0' = pc0 + 1
    /\ UNCHANGED << r13, phase, lines_left, PORTD, PORTB, pc, io >>
    /\ UNCHANGED history

\* The state in which setup() is entered.
Reset ==
    /\ phase = ResetMachine.phase
    /\ lines_left = ResetMachine.ctr
    /\ PORTD = ResetMachine.D
    /\ PORTB = ResetMachine.B
    /\ io = ResetMachine.io
    /\ pc = 1
    /\ r13 \in R13Values
    /\ phase0 = ResetMachine.phase
    /\ line_number = ResetMachine.ctr
    /\ PORTD0 = ResetMachine.D
    /\ PORTB0 = ResetMachine.B
    /\ io0 = ResetMachine.io
    /\ pc0 = 1
    /\ trace = << >>
    /\ trace0 = << >>
    /\ events = 0
    /\ entryPhase = -1
    /\ entryLines = 0
    /\ entryPhase0 = -1
    /\ entryLine0 = 0
    /\ inPhase = 0
    /\ inPhase0 = 0
    /\ spent = 0
    /\ spent0 = 0
    /\ sinceSync = -1
    /\ sinceSync0 = -1
    /\ gap = 0
    /\ gap0 = 0
    /\ colourLines = 0
    /\ colourLines0 = 0
    /\ advance = << >>
    /\ advance0 = << >>
    /\ carry = 0
    /\ carry0 = 0
    /\ lost = 0
    /\ lost0 = 0

Next == TimerEvent

Spec == Init /\ [][Next]_vars

\* The sketches from reset: setup() statement by statement, then the handlers.
SetupNext == SetupStep \/ SetupStep0 \/ TimerEvent

SetupSpec == Reset /\ [][SetupNext]_vars

\* The sketches with timer events that may be served late.
LateNext == LateTimerEvent

LateSpec == Init /\ [][LateNext]_vars

(* ---------------------------------------------------------------------- *)
(* The terms of the specification                                         *)
(* ---------------------------------------------------------------------- *)
\* SyncPulse -> BackPorch -> ActiveVideo -> FrontPorch -> SyncPulse ...
Successor(p) ==
    CASE p = SYNCH_PULSE -> BACK_PORCH
      [] p = BACK_PORCH -> ACTIVE_VIDEO
      [] p = ACTIVE_VIDEO -> FRONT_PORCH
      [] p = FRONT_PORCH -> SYNCH_PULSE

\* The per-phase line counts: SyncPulse 2, BackPorch 31, ActiveVideo 480, FrontPorch 11.
LineCount(p) ==
    CASE p = SYNCH_PULSE -> 2
      [] p = BACK_PORCH -> 31
      [] p = ACTIVE_VIDEO -> 480
      [] p = FRONT_PORCH -> 11

FrameLines == 2 + 31 + 480 + 11

\* The phase on entry to the handler at the i-th timer event after start-up
\* (i = 0 is the first): FrontPorch x11, SyncPulse x2, BackPorch x31, ActiveVideo x480.
FramePhase(i) ==
    IF i < 11 THEN FRONT_PORCH
    ELSE IF i < 11 + 2 THEN SYNCH_PULSE
    ELSE IF i < 11 + 2 + 31 THEN BACK_PORCH
    ELSE ACTIVE_VIDEO

(* ---------------------------------------------------------------------- *)
(* C1: in each variant the phase only ever moves to its cyclic successor  *)
(* (SyncPulse, BackPorch, ActiveVideo, FrontPorch, SyncPulse, ...), never *)
(* skipping one, and two consecutive entries into SyncPulse are exactly   *)
(* 2 + 31 + 480 + 11 = 524 advance() calls apart.                         *)
(* ---------------------------------------------------------------------- *)
C1_PhaseCycle ==
    /\ entryPhase # -1 => phase \in {entryPhase, Successor(entryPhase)}
    /\ entryPhase0 # -1 => phase0 \in {entryPhase0, Successor(entryPhase0)}
    /\ gap \in {0, FrameLines}
    /\ gap0 \in {0, FrameLines}
    /\ sinceSync < FrameLines
    /\ sinceSync0 < FrameLines

\* SyncPulse has been entered a second time in both variants.
C1_Witness ==
    /\ gap = 524 /\ phase = SYNCH_PULSE /\ entryPhase = FRONT_PORCH
    /\ gap0 = 524 /\ phase0 = SYNCH_PULSE /\ entryPhase0 = FRONT_PORCH

(* ---------------------------------------------------------------------- *)
(* C2: a phase P entered with its full allotment is left after exactly    *)
(* count(P) advance() calls and not before; the phase is then             *)
(* successor(P) and the lines remaining in it are count(successor(P))     *)
(* (lines_left in vgarduino.ino; in part_000 the line index restarts at   *)
(* 0, so nb_line_modes[phase] - line_number lines remain).                *)
(* ---------------------------------------------------------------------- *)
C2_LineCountExhaustion ==
    /\ inPhase < LineCount(phase)
    /\ inPhase0 < LineCount(phase0)
    /\ (entryPhase # -1 /\ phase # entryPhase) =>
          /\ spent = LineCount(entryPhase)
          /\ phase = Successor(entryPhase)
          /\ lines_left = LineCount(phase)
    /\ (entryPhase0 # -1 /\ phase0 # entryPhase0) =>
          /\ spent0 = LineCount(entryPhase0)
          /\ phase0 = Successor(entryPhase0)
          /\ line_number = 0
          /\ nb_line_modes(phase0) - line_number = LineCount(phase0)

\* ActiveVideo, the longest phase, has just been exhausted in both variants.
C2_Witness ==
    /\ entryPhase = ACTIVE_VIDEO /\ phase = FRONT_PORCH /\ spent = 480 /\ lines_left = 11
    /\ entryPhase0 = ACTIVE_VIDEO /\ phase0 = FRONT_PORCH /\ spent0 = 480 /\ line_number = 0

(* ---------------------------------------------------------------------- *)
(* C3: over the first 524 timer events after initialization the phase on  *)
(* entry to the handler is FrontPorch x11, SyncPulse x2, BackPorch x31,   *)
(* ActiveVideo x480 in that order; the ActiveVideo invocations, 480 of    *)
(* the 524, each emit the 8-band colour sequence and the others write no  *)
(* colour at all.                                                         *)
(* ---------------------------------------------------------------------- *)
C3_FirstFrame ==
    /\ events < FrameLines => phase = FramePhase(events) /\ phase0 = FramePhase(events)
    /\ (events >= 1 /\ events <= FrameLines) =>
          /\ entryPhase = FramePhase(events - 1)
          /\ entryPhase0 = FramePhase(events - 1)
          /\ IF entryPhase = ACTIVE_VIDEO
             THEN EmitsEightBands(trace) ELSE RGBWrites(trace) = << >>
          /\ IF entryPhase0 = ACTIVE_VIDEO
             THEN EmitsEightBands(trace0) ELSE RGBWrites(trace0) = << >>
          /\ colourLines = (IF events <= 44 THEN 0 ELSE events - 44)
          /\ colourLines0 = (IF events <= 44 THEN 0 ELSE events - 44)
    /\ events = FrameLines => colourLines = 480 /\ colourLines0 = 480

\* The 524th event has been handled: 480 colour lines in both variants.
C3_Witness ==
    /\ events = 524 /\ colourLines = 480 /\ colourLines0 = 480
    /\ EmitsEightBands(trace) /\ EmitsEightBands(trace0)

(* ---------------------------------------------------------------------- *)
(* C9: between handler invocations the phase is one of 0..3 and the line  *)
(* counter is inside the allotment of the current phase:                  *)
(* 0 < lines_left <= nb_line_modes[phase] in vgarduino.ino and            *)
(* 0 <= line_number < nb_line_modes[phase] in part_000; the counter is    *)
(* never left at 0 (at the allotment) with the phase not advanced.        *)
(* ---------------------------------------------------------------------- *)
C9_CounterInAllotment ==
    /\ phase \in 0 .. 3
    /\ 0 < lines_left /\ lines_left <= nb_line_modes(phase)
    /\ phase0 \in 0 .. 3
    /\ 0 <= line_number /\ line_number < nb_line_modes(phase0)
    /\ (entryPhase # -1 /\ entryLines = 1) => phase # entryPhase
    /\ (entryPhase0 # -1 /\ entryLine0 = nb_line_modes(entryPhase0) - 1) => phase0 # entryPhase0

\* The counters have just hit the boundary of ActiveVideo and were reloaded.
C9_Witness ==
    /\ entryPhase = ACTIVE_VIDEO /\ entryLines = 1 /\ phase = FRONT_PORCH /\ lines_left = 11
    /\ entryPhase0 = ACTIVE_VIDEO /\ entryLine0 = 479 /\ phase0 = FRONT_PORCH /\ line_number = 0

(* ---------------------------------------------------------------------- *)
(* C4: for the computed-delay waitTimer1 of vgarduino.ino, whenever the   *)
(* delta tick - reading - overhead does not underflow, the cycles the     *)
(* routine consumes are one affine function a * delta + b of the delta,   *)
(* the same for the four remainder classes delta mod 4 (four consecutive  *)
(* deltas cover the four classes).                                        *)
(* ---------------------------------------------------------------------- *)
C4_AffineCost ==
    \A i \in DOMAIN trace :
        (IsWait(trace[i]) /\ ~trace[i].underflow /\ trace[i].delta >= 3) =>
            /\ trace[i].delta >= 0
            /\ \E a \in 0 .. 8, b \in 0 .. 32 :
                 \A d \in (trace[i].delta - 3) .. trace[i].delta :
                    (IF d = trace[i].delta THEN trace[i].cycles ELSE AsmCycles(d)) = a * d + b

\* The two waiters taken one by one: part_000's poll loop, then vgarduino.ino's asm block.
C5_PollLoopReachesTarget ==
    \A i \in DOMAIN trace0 :
        (IsWait(trace0[i]) /\ trace0[i].entry <= trace0[i].tick) =>
            /\ trace0[i].done
            /\ trace0[i].reading >= trace0[i].tick
            /\ TCNT1L(trace0[i].t1) >= trace0[i].tick

C5_ComputedDelayReachesTarget ==
    \A i \in DOMAIN trace :
        (IsWait(trace[i]) /\ trace[i].reading <= trace[i].tick) =>
            TCNT1L(trace[i].t1) >= trace[i].tick

(* ---------------------------------------------------------------------- *)
(* C5: a waitTimer1(targetTick) call entered with the counter not yet     *)
(* past the target returns only once the low byte of the counter is       *)
(* >= targetTick, in the poll-loop waiter and in the computed-delay       *)
(* waiter.                                                                *)
(* ---------------------------------------------------------------------- *)
C5_ReturnsAtOrAfterTarget ==
    C5_PollLoopReachesTarget /\ C5_ComputedDelayReachesTarget

\* The band schedule of a run: transition k placed by a wait on 91 + k * 50, the end on 91 + 406.
BandSchedule(tr) ==
    \E ix \in {RGBIndex(tr)} :
        /\ Len(ix) = 8 + 1
        /\ \A k \in 0 .. 7 :
              /\ PlacedByWaiter(tr, ix[k + 1])
              /\ tr[ix[k + 1] - 1].tick = 91 + k * 50
        /\ PlacedByWaiter(tr, ix[9])
        /\ tr[ix[9] - 1].tick = 91 + 406

(* ---------------------------------------------------------------------- *)
(* C6: in every ActiveVideo invocation of each variant 8 colour bands are *)
(* emitted, colour transition k = 0..7 is placed by the waiter at tick    *)
(* offset 91 + k * 50, and the last band ends at 91 + 406, absorbing the  *)
(* remainder.                                                             *)
(* ---------------------------------------------------------------------- *)
C6_BandSchedule ==
    /\ entryPhase = ACTIVE_VIDEO => BandSchedule(trace)
    /\ entryPhase0 = ACTIVE_VIDEO => BandSchedule(trace0)

\* Wait targets and output offsets of a run both strictly increase.
IncreasingTargets(tr) ==
    /\ \E w \in {Waits(tr)} :
          \A i \in 1 .. Len(w) - 1 : w[i].tick < w[i + 1].tick
    /\ \E o \in {Writes(tr)} :
          \A i \in 1 .. Len(o) - 1 : TCNT1(o[i].at) < TCNT1(o[i + 1].at)

(* ---------------------------------------------------------------------- *)
(* C7: within one invocation the byte targets received by successive      *)
(* waitTimer1 calls are strictly increasing, and so are the tick offsets  *)
(* of the output transitions.                                             *)
(* ---------------------------------------------------------------------- *)
C7_IncreasingTargets == IncreasingTargets(trace) /\ IncreasingTargets(trace0)

\* The sync writes of a run entered in phase onEntry and left in phase after.
SyncEdge(tr, onEntry, after, pin) ==
    \E ix \in {SelectSeq([i \in 1 .. Len(tr) |-> i], LAMBDA i : IsWrite(tr[i], "SYNCH"))} :
        IF onEntry \in {FRONT_PORCH, SYNCH_PULSE} /\ after # onEntry
        THEN /\ Len(ix) = 1
             /\ PlacedByWaiter(tr, ix[1])
             /\ tr[ix[1] - 1].arg = 61 + 30
             /\ tr[ix[1] - 1].tick = 61 + 30
             /\ Bit(tr[ix[1]].val, pin) # Bit(tr[ix[1]].old, pin)
             /\ \A k \in (0 .. 7) \ {pin} : Bit(tr[ix[1]].val, k) = Bit(tr[ix[1]].old, k)
        ELSE Len(ix) = 0

WithinLinePeriod(tr) ==
    /\ tr # << >> => tr[Len(tr)].t1 < 507
    /\ \A i \in DOMAIN tr : tr[i].op # "delay"

(* ---------------------------------------------------------------------- *)
(* C10: every handler invocation ends before the next timer event: its    *)
(* waits and output steps are over before tick H_FULL_LINE_NB_TICKS = 507 *)
(* of the line period, every wait comes to an end, and the waiter is the  *)
(* only blocking step.                                                    *)
(* ---------------------------------------------------------------------- *)
C10_WithinLinePeriod ==
    /\ WithinLinePeriod(trace)
    /\ WithinLinePeriod(trace0)
    /\ \A i \in DOMAIN trace0 : IsWait(trace0[i]) => trace0[i].done

\* The statements of a statement list executed when statement k is the next one.
Executed(stmts, k) == { stmts[i] : i \in 1 .. k - 1 }

\* The order of one initialization: prog is its statement list, k its next
\* statement, r its registers, p and left the phase and the lines remaining,
\* n the number of handler invocations so far.
InitOrder(prog, k, r, p, left, n) ==
    \E done \in {Executed(prog, k)} :
        \* the state is loaded with the pins already configured as outputs
        /\ "phase" \in done =>
              /\ r.DDRD = _BV(RED_PIN) + _BV(GREEN_PIN) + _BV(BLUE_PIN)
              /\ r.DDRB = _BV(VSYNCH_PIN) + _BV(HSYNCH_PIN)
        \* interrupts are off from before the state is loaded until the end
        /\ (done \cap {"phase", "lines_left", "line_number"} # {} /\ k <= Len(prog)) => r.I = 0
        /\ (k <= Len(prog) /\ prog[k] \in {"phase", "lines_left", "line_number"}) => r.I = 0
        \* the timer and its interrupt are armed with the state loaded
        /\ ("ICIE1" \in r.TIMSK1 \/ Timer1Captures(r)) =>
              (n = 0 => p = FRONT_PORCH /\ left = 11)
        \* interrupts are enabled last, with the timer armed
        /\ (r.I = 1 /\ done \cap {"phase", "lines_left", "line_number"} # {}) =>
              /\ k = Len(prog) + 1
              /\ "ICIE1" \in r.TIMSK1 /\ Timer1Captures(r)
              /\ r.ICR1 = H_FULL_LINE_NB_TICKS
        \* no handler invocation before that
        /\ Interruptible(r) => k = Len(prog) + 1
        /\ k <= Len(prog) => n = 0
        /\ (Interruptible(r) /\ n = 0) => p = FRONT_PORCH /\ left = 11

(* ---------------------------------------------------------------------- *)
(* C11: each initialization configures the output pins, then, with        *)
(* interrupts disabled from before the state is loaded until the end,     *)
(* sets the phase to FrontPorch with its 11 lines remaining, arms the     *)
(* timer period and the capture interrupt, and enables interrupts last;   *)
(* the handler cannot be invoked before the phase and the counter hold    *)
(* their initial values, and its first invocation finds them.             *)
(* ---------------------------------------------------------------------- *)
C11_InitOrder ==
    /\ InitOrder(setup, pc, io, phase, lines_left, events)
    /\ InitOrder(setup0, pc0, io0, phase0, nb_line_modes(phase0) - line_number, events)
    /\ events = 1 =>
          /\ entryPhase = FRONT_PORCH /\ entryLines = 11
          /\ entryPhase0 = FRONT_PORCH /\ entryLine0 = 0

\* Both initializations are over and the first timer event has been handled.
C11_Witness ==
    /\ pc = Len(setup) + 1 /\ pc0 = Len(setup0) + 1
    /\ io.I = 1 /\ io0.I = 1
    /\ events = 1 /\ entryPhase = FRONT_PORCH /\ entryLines = 11
    /\ entryPhase0 = FRONT_PORCH /\ entryLine0 = 0
    /\ lines_left = 10 /\ line_number = 1

\* The calls of incrementLineNumber() in one invocation: exactly one, made
\* after every output step and wait of the run tr.
OneAdvanceAtEnd(adv, tr) ==
    /\ Len(adv) = 1
    /\ adv[1].after = Len(tr)
    /\ \A i \in DOMAIN tr : tr[i].t1 <= adv[1].t0

(* ---------------------------------------------------------------------- *)
(* C12: every handler invocation, whatever the phase and whether or not   *)
(* the line is the last of its phase, calls incrementLineNumber() exactly *)
(* once, after all its output writes and waits; between its entry and its *)
(* exit the counter moves by exactly one line (or the phase moves to its  *)
(* successor with the counter reloaded), no timer event goes unanswered,  *)
(* and nothing is advanced before the first timer event.                  *)
(* ---------------------------------------------------------------------- *)
C12_AdvanceOncePerEvent ==
    /\ events = 0 => advance = << >> /\ advance0 = << >>
    /\ lost = 0 /\ lost0 = 0
    /\ events >= 1 =>
          /\ OneAdvanceAtEnd(advance, trace)
          /\ IF entryLines = 1
             THEN phase = Successor(entryPhase) /\ lines_left = LineCount(phase)
             ELSE phase = entryPhase /\ lines_left = entryLines - 1
          /\ OneAdvanceAtEnd(advance0, trace0)
          /\ IF entryLine0 + 1 = LineCount(entryPhase0)
             THEN phase0 = Successor(entryPhase0) /\ line_number = 0
             ELSE phase0 = entryPhase0 /\ line_number = entryLine0 + 1
    /\ inPhase + lines_left = LineCount(phase)
    /\ inPhase0 = line_number

\* The last line of ActiveVideo has been handled: in both variants the call
\* came after the 18 output steps and waits of the line.
C12_Witness ==
    /\ entryPhase = ACTIVE_VIDEO /\ entryLines = 1 /\ phase = FRONT_PORCH
    /\ Len(advance) = 1 /\ advance[1].after = 18 /\ Len(trace) = 18
    /\ entryPhase0 = ACTIVE_VIDEO /\ entryLine0 = 479 /\ phase0 = FRONT_PORCH
    /\ Len(advance0) = 1 /\ advance0[1].after = 18 /\ Len(trace0) = 18

\* The cycles the asm block of vgarduino.ino takes at most when it has no
\* tick to wait for (a delta below 4: no turn of the reduce loop).
FixedOverhead == AsmCycles(3)

\* The poll loop entered with the low byte past its target returns on its first sample.
C14_PollLoopDoesNotBlock ==
    \A i \in DOMAIN trace0 :
        (IsWait(trace0[i]) /\ trace0[i].entry > trace0[i].tick) =>
            /\ trace0[i].reading = trace0[i].entry
            /\ trace0[i].t1 - trace0[i].t0 <= PollCycles

\* The asm block entered with the low byte past its target takes its fixed overhead only.
C14_ComputedDelayDoesNotBlock ==
    \A i \in DOMAIN trace :
        (IsWait(trace[i]) /\ trace[i].reading > trace[i].tick) =>
            trace[i].cycles <= FixedOverhead

(* ---------------------------------------------------------------------- *)
(* C14: a waitTimer1 call made when the low byte of the counter is        *)
(* already past the target does not block: it returns after its fixed     *)
(* overhead, without waiting for further timer ticks, in the poll-loop    *)
(* waiter of part_000 and in the computed-delay waiter of vgarduino.ino.  *)
(* ---------------------------------------------------------------------- *)
C14_UnderflowDoesNotBlock ==
    C14_PollLoopDoesNotBlock /\ C14_ComputedDelayDoesNotBlock

\* An invocation was entered with the counter past the target of its first wait.
EnteredLate(tr) == tr # << >> /\ IsWait(tr[1]) /\ TCNT1(tr[1].t0) > tr[1].tick

\* part_000: no timer event goes unanswered, and a late invocation advances
\* once and is over within its line period.
C13_LatenessConfined0 ==
    /\ lost0 = 0
    /\ EnteredLate(trace0) =>
          /\ OneAdvanceAtEnd(advance0, trace0)
          /\ carry0 = 0

\* vgarduino.ino: the same.
C13_LatenessConfinedA ==
    /\ lost = 0
    /\ EnteredLate(trace) =>
          /\ OneAdvanceAtEnd(advance, trace)
          /\ carry = 0

\* vgarduino.ino: no timer event goes unanswered.
C13_NoEventLostA == lost = 0

(* ---------------------------------------------------------------------- *)
(* C13: an invocation entered with the counter already past a wait target *)
(* still advances the phase and the counter exactly once, no timer event  *)
(* is lost, and the invocation is over before the next timer event, so    *)
(* that the next invocation starts at its own latency and places its      *)
(* transitions at their tick offsets: the lateness is not carried over.   *)
(* ---------------------------------------------------------------------- *)
C13_LatenessConfined == C13_LatenessConfined0 /\ C13_LatenessConfinedA

\* The argument of every wait of a run is received unchanged by the byte parameter.
TargetsFitByte(tr) ==
    \A i \in DOMAIN tr :
        IsWait(tr[i]) => /\ tr[i].arg <= 255
                         /\ tr[i].tick = tr[i].arg

(* ---------------------------------------------------------------------- *)
(* C15: every tick value a handler passes to waitTimer1 is at most 255,   *)
(* so the byte parameter receives it unchanged: the target the waiter     *)
(* compares with the low byte of the counter is the tick offset meant.    *)
(* ---------------------------------------------------------------------- *)
C15_TargetsFitByte == TargetsFitByte(trace) /\ TargetsFitByte(trace0)

\* A run entered in phase onEntry writes colour only in ActiveVideo, and there
\* its last output step switches the three colour bits off.
ColourEndsBlank(tr, onEntry) ==
    IF onEntry = ACTIVE_VIDEO
    THEN /\ tr # << >>
         /\ IsWrite(tr[Len(tr)], "RGB")
         /\ ColourBits(tr[Len(tr)].val) = 0
         /\ ColourBits(tr[Len(tr)].old) # 0
    ELSE RGBWrites(tr) = << >>

(* ---------------------------------------------------------------------- *)
(* C16: every ActiveVideo invocation ends with a write that switches the  *)
(* colour output off, no invocation in another phase writes colour, and   *)
(* so between invocations the three colour bits (7, 6, 5 of the RGB port) *)
(* are all 0.                                                             *)
(* ---------------------------------------------------------------------- *)
C16_ColourBlankOnExit ==
    /\ ColourBits(PORTD) = 0
    /\ ColourBits(PORTD0) = 0
    /\ events >= 1 => /\ ColourEndsBlank(trace, entryPhase)
                      /\ ColourEndsBlank(trace0, entryPhase0)

\* An ActiveVideo line has been handled: WHITE was on the port and was switched off.
C16_Witness ==
    /\ entryPhase = ACTIVE_VIDEO /\ trace[Len(trace)].old = WHITE_MASK /\ PORTD = 0
    /\ entryPhase0 = ACTIVE_VIDEO /\ trace0[Len(trace0)].old = WHITE_MASK
    /\ ColourBits(PORTD0) = 0

(* ---------------------------------------------------------------------- *)
(* C17: a handler invocation in BackPorch makes no output step: it writes *)
(* neither the RGB port nor the sync port, both ports and the registers   *)
(* are after it as they were before, and what changes is the phase / line *)
(* counter, by its one incrementLineNumber() call.                        *)
(* ---------------------------------------------------------------------- *)
C17_BackPorchNoOutput ==
    [][ /\ (phase = BACK_PORCH /\ events' = events + 1) =>
              /\ Writes(trace') = << >>
              /\ PORTD' = PORTD /\ PORTB' = PORTB /\ io' = io
              /\ Len(advance') = 1
              /\ << phase', lines_left' >> # << phase, lines_left >>
        /\ (phase0 = BACK_PORCH /\ events' = events + 1) =>
              /\ Writes(trace0') = << >>
              /\ PORTD0' = PORTD0 /\ PORTB0' = PORTB0 /\ io0' = io0
              /\ Len(advance0') = 1
              /\ << phase0', line_number' >> # << phase0, line_number >>
      ]_vars

\* The last BackPorch line has been handled, with no write in either variant.
C17_Witness ==
    /\ entryPhase = BACK_PORCH /\ entryLines = 1 /\ phase = ACTIVE_VIDEO
    /\ Writes(trace) = << >>
    /\ entryPhase0 = BACK_PORCH /\ entryLine0 = 30 /\ phase0 = ACTIVE_VIDEO
    /\ Writes(trace0) = << >> /\ Len(Waits(trace0)) = 1

\* Once its initialization is over, the one interrupt source of a sketch is
\* the capture event of Timer1.
OnlyTimer1(prog, k, r) ==
    k = Len(prog) + 1 =>
        /\ ActiveSources(r) = {"TIMER1_CAPT"}
        /\ ~Timer0Overflows(r)

(* ---------------------------------------------------------------------- *)
(* C18: after the initialization of each variant exactly one interrupt    *)
(* source is active, the capture event of Timer1; the other timer source, *)
(* Timer0 with its overflow interrupt, has been stopped by the            *)
(* configuration code.                                                    *)
(* ---------------------------------------------------------------------- *)
C18_SingleInterruptSource ==
    /\ OnlyTimer1(setup, pc, io)
    /\ OnlyTimer1(setup0, pc0, io0)

(* ---------------------------------------------------------------------- *)
(* C19: given the same timer events from their initial states, the two    *)
(* variants hold the same phase in every state, their counters satisfy    *)
(* lines_left = nb_line_modes[phase] - line_number, they change phase on  *)
(* the same events, and they write the software-driven sync line (bit 0   *)
(* of the sync port) on the same events, to the same level.               *)
(* ---------------------------------------------------------------------- *)
C19_SamePhaseEngine ==
    /\ phase = phase0
    /\ lines_left = nb_line_modes(phase0) - line_number
    /\ entryPhase = entryPhase0
    /\ (phase # entryPhase) <=> (phase0 # entryPhase0)
    /\ \E w \in {SYNCHWrites(trace)}, w0 \in {SYNCHWrites(trace0)} :
          /\ Len(w) = Len(w0)
          /\ \A i \in DOMAIN w :
                /\ Bit(w[i].val, VSYNCH_PIN) = Bit(w0[i].val, HSYNCH_PIN0)
                /\ Bit(w[i].old, VSYNCH_PIN) = Bit(w0[i].old, HSYNCH_PIN0)
    /\ Bit(PORTB, VSYNCH_PIN) = Bit(PORTB0, HSYNCH_PIN0)

\* In the second frame both variants have just entered SyncPulse, pulling the
\* sync line low on the same event.
C19_Witness ==
    /\ events > FrameLines
    /\ entryPhase = FRONT_PORCH /\ phase = SYNCH_PULSE /\ lines_left = 2
    /\ entryPhase0 = FRONT_PORCH /\ phase0 = SYNCH_PULSE /\ line_number = 0
    /\ Len(SYNCHWrites(trace)) = 1 /\ Len(SYNCHWrites(trace0)) = 1
    /\ Bit(PORTB, VSYNCH_PIN) = 0 /\ Bit(PORTB0, HSYNCH_PIN0) = 0

\* The software-driven sync line of a variant, against its phase: low exactly
\* in SyncPulse, that is for the 2 line periods after SyncPulse is entered.
SyncFollowsPhase(level, p, since, n) ==
    /\ level = 0 <=> p = SYNCH_PULSE
    /\ n = 0 => level = 1
    /\ level = 0 => since \in {0, 1}
    /\ (level = 1 /\ since # -1) => since >= 2

(* ---------------------------------------------------------------------- *)
(* C20: between handler invocations the software-driven sync output is    *)
(* low if and only if the phase is SyncPulse: it is high after the        *)
(* initialization, goes low in the last FrontPorch line, high again in    *)
(* the last SyncPulse line, and so is low for exactly 2 of the 524 line   *)
(* periods of a frame.                                                    *)
(* ---------------------------------------------------------------------- *)
C20_SyncLowIffSyncPulse ==
    /\ SyncFollowsPhase(Bit(PORTB, VSYNCH_PIN), phase, sinceSync, events)
    /\ SyncFollowsPhase(Bit(PORTB0, HSYNCH_PIN0), phase0, sinceSync0, events)

\* The second line of the second sync pulse: the line is low in both variants.
C20_Witness ==
    /\ gap = FrameLines /\ phase = SYNCH_PULSE /\ sinceSync = 1
    /\ Bit(PORTB, VSYNCH_PIN) = 0
    /\ gap0 = FrameLines /\ phase0 = SYNCH_PULSE /\ sinceSync0 = 1
    /\ Bit(PORTB0, HSYNCH_PIN0) = 0

====
